---- MODULE Spec2Model ----
(***************************************************************************)
(* Model of gopen's web-URL construction (url.go): the provider registry,  *)
(* the path-join and line-anchor helpers, detectProvider and buildWebURL;  *)
(* of the remote-URL normalizer convertToHTTPS, the argument parser        *)
(* parseArgs (args.go) and the sequence of stages in main (main.go).       *)
(* Go strings are TLA+ strings; Len, SubSeq and \o act on them character   *)
(* by character, so substring tests and splits are computed, not assumed.  *)
(***************************************************************************)
EXTENDS Integers, Sequences, FiniteSets, TLC

VARIABLES
    providers,    \* url.go `providers`: the ordered registry (descriptor ids)
    ctx,          \* repoContext handed to buildWebURL: baseURL, branch, relPath
    lineNumber,   \* buildWebURL parameter lineNumber (the raw line spec)
    commitHash,   \* buildWebURL parameter commitHash
    startLine,    \* buildWebURL local startLine
    endLine,      \* buildWebURL local endLine
    p,            \* buildWebURL local p: the selected descriptor
    url,          \* buildWebURL local url: the URL before the anchor
    webURL,       \* buildWebURL's return value (main's webURL)
    results,      \* TestBuildWebURL: inputs and `got` of the cases run so far
    joinParts,    \* pathJoin parameter parts
    joined,       \* pathJoin's return value
    remoteURL,    \* convertToHTTPS parameter url (git's remote URL)
    httpsURL,     \* convertToHTTPS's return value
    args,         \* parseArgs parameter args (os.Args[1:])
    cfg,          \* the config parseArgs returns
    err,          \* the error last returned to the caller; "" is nil
    env,          \* what the file system, git and the output sink will answer
    targetPath,   \* main's targetPath, the result of resolvePath
    trace,        \* the stages main has run so far, in order
    exitStatus,   \* the status given to os.Exit; Running while main runs
    pc            \* "build": buildWebURL not yet called, "done": it returned;
                  \* "loop": inside the test loop; "join"/"joined": around pathJoin;
                  \* "convert"/"converted": around convertToHTTPS;
                  \* "parse"/"parsed": around parseArgs; in main, the next stage

vars == <<providers, ctx, lineNumber, commitHash, startLine, endLine, p, url, webURL,
          results, joinParts, joined, remoteURL, httpsURL, args, cfg, err, env,
          targetPath, trace, exitStatus, pc>>

\* the state of convertToHTTPS, parseArgs and main
cliVars == <<remoteURL, httpsURL, args, cfg, err, env, targetPath, trace, exitStatus>>

\* the state of buildWebURL, its test loop and pathJoin
urlVars == <<providers, ctx, lineNumber, commitHash, startLine, endLine, p, url, webURL,
             results, joinParts, joined>>

----------------------------------------------------------------------------
(* Bounds of the explored inputs.                                          *)

\* longest raw line spec, in characters
MaxLineLen == 3
\* most host/path fragments after "https://" in a base URL
MaxFragments == 2
\* longest raw line spec of the inputs that vary the line spec only
MaxLongLineLen == 5
\* most invocations of buildWebURL in one run of the test loop
MaxCalls == 3
\* most arguments of one pathJoin call
MaxParts == 3
\* most command-line arguments of one parseArgs call
MaxArgs == 3

----------------------------------------------------------------------------
(* Go standard-library string functions used by url.go.                    *)

\* strings.Contains(s, substr)
Contains(s, substr) ==
    \E i \in 0..(Len(s) - Len(substr)) : SubSeq(s, i + 1, i + Len(substr)) = substr

\* strings.HasPrefix(s, prefix)
HasPrefix(s, prefix) ==
    Len(s) >= Len(prefix) /\ SubSeq(s, 1, Len(prefix)) = prefix

\* strings.HasSuffix(s, suffix)
HasSuffix(s, suffix) ==
    Len(s) >= Len(suffix) /\ SubSeq(s, Len(s) - Len(suffix) + 1, Len(s)) = suffix

\* strings.Index(s, c) for a one-character c, 1-based; 0 when c does not occur
Index(s, c) ==
    IF \E i \in 1..Len(s) : SubSeq(s, i, i) = c
    THEN CHOOSE i \in 1..Len(s) :
            /\ SubSeq(s, i, i) = c
            /\ \A j \in 1..(i - 1) : SubSeq(s, j, j) # c
    ELSE 0

\* a split at the last separator instead of the first
SplitN2Last(s, sep) ==
    IF Index(s, sep) = 0
    THEN <<s>>
    ELSE LET i == CHOOSE k \in 1..Len(s) :
                     /\ SubSeq(s, k, k) = sep
                     /\ \A j \in (k + 1)..Len(s) : SubSeq(s, j, j) # sep
         IN  <<SubSeq(s, 1, i - 1), SubSeq(s, i + 1, Len(s))>>

\* strings.SplitN(s, sep, 2) for a one-character sep: at most two parts,
\* split at the first sep
SplitN2(s, sep) ==
    IF Index(s, sep) = 0
    THEN <<s>>
    ELSE <<SubSeq(s, 1, Index(s, sep) - 1), SubSeq(s, Index(s, sep) + 1, Len(s))>>

RECURSIVE Join(_, _)
\* strings.Join(elems, sep)
Join(elems, sep) ==
    IF Len(elems) = 0 THEN ""
    ELSE IF Len(elems) = 1 THEN elems[1]
    ELSE elems[1] \o sep \o Join(Tail(elems), sep)

----------------------------------------------------------------------------
(* url.go helpers.                                                         *)

\* a join that keeps the empty segments
pathJoinKeepEmpty(parts) == Join(parts, "/")

\* pathJoin: slash-joined, skipping empty segments
pathJoin(parts) == Join(SelectSeq(parts, LAMBDA s : s # ""), "/")

\* a GitHub-style anchor that drops the end of a range
anchorLNNoRange(start, end) ==
    IF start = "" THEN "" ELSE "#L" \o start

\* anchorLN: #L42 or #L42-L50
anchorLN(start, end) ==
    IF start = "" THEN ""
    ELSE IF end = "" THEN "#L" \o start
    ELSE "#L" \o start \o "-L" \o end

\* anchorGL: #L42 or #L42-50
anchorGL(start, end) ==
    IF start = "" THEN ""
    ELSE IF end = "" THEN "#L" \o start
    ELSE "#L" \o start \o "-" \o end

\* a Bitbucket anchor that tests the end before the start
anchorBBEndFirst(start, end) ==
    IF end # "" THEN "#lines-" \o start \o ":" \o end
    ELSE IF start = "" THEN ""
    ELSE "#lines-" \o start

\* anchorBB: #lines-42 or #lines-42:50
anchorBB(start, end) ==
    IF start = "" THEN ""
    ELSE IF end = "" THEN "#lines-" \o start
    ELSE "#lines-" \o start \o ":" \o end

\* an Azure anchor that leaves lineEnd empty for a single line
anchorADONoDefault(start, end) ==
    IF start = "" THEN ""
    ELSE "&line=" \o start \o "&lineEnd=" \o end
            \o "&lineStartColumn=1&lineEndColumn=1"

\* anchorADO: query parameters; a single line is the range start..start
anchorADO(start, end) ==
    IF start = "" THEN ""
    ELSE LET e == IF end = "" THEN start ELSE end
         IN  "&line=" \o start \o "&lineEnd=" \o e
                \o "&lineStartColumn=1&lineEndColumn=1"

----------------------------------------------------------------------------
(* The provider registry.  A descriptor is named by an id; its four        *)
(* function-valued fields are the operators match, treeURL, commitURL and  *)
(* lineAnchor applied to that id.                                          *)

\* the registry in its declaration order
ProviderTable ==
    <<"github", "gitlab", "bitbucket", "azure", "gitea", "gogs", "codecommit">>

\* defaultProvider: GitHub-style fallback (it has no matcher)
defaultProvider == "default"

\* matchers in which GitLab is recognised by "gitlab.com" only
matchGitLabCom(d, u) ==
    CASE d = "github"     -> Contains(u, "github.com")
      [] d = "gitlab"     -> Contains(u, "gitlab.com")
      [] d = "bitbucket"  -> Contains(u, "bitbucket.org")
      [] d = "azure"      -> Contains(u, "dev.azure.com") \/ Contains(u, "visualstudio.com")
      [] d = "gitea"      -> Contains(u, "gitea")
      [] d = "gogs"       -> Contains(u, "gogs")
      [] d = "codecommit" -> Contains(u, "console.aws.amazon.com") \/ Contains(u, "codecommit")

\* field match of descriptor d
match(d, u) ==
    CASE d = "github"     -> Contains(u, "github.com")
      [] d = "gitlab"     -> Contains(u, "gitlab.com") \/ Contains(u, "gitlab")
      [] d = "bitbucket"  -> Contains(u, "bitbucket.org")
      [] d = "azure"      -> Contains(u, "dev.azure.com") \/ Contains(u, "visualstudio.com")
      [] d = "gitea"      -> Contains(u, "gitea")
      [] d = "gogs"       -> Contains(u, "gogs")
      [] d = "codecommit" -> Contains(u, "console.aws.amazon.com") \/ Contains(u, "codecommit")

\* treeURL fields in which the default descriptor browses under "src"
treeURLDefaultSrc(d, base, ref, path) ==
    CASE d = "github"     -> pathJoin(<<base, "tree", ref, path>>)
      [] d = "gitlab"     -> pathJoin(<<base, "-/tree", ref, path>>)
      [] d = "bitbucket"  -> pathJoin(<<base, "src", ref, path>>)
      [] d = "azure"      -> IF path = ""
                             THEN base \o "?version=GB" \o ref
                             ELSE base \o "?version=GB" \o ref \o "&path=/" \o path
      [] d = "gitea"      -> pathJoin(<<base, "src/branch", ref, path>>)
      [] d = "gogs"       -> pathJoin(<<base, "src", ref, path>>)
      [] d = "codecommit" -> IF path = ""
                             THEN pathJoin(<<base, "browse/refs/heads", ref, "--">>) \o "/"
                             ELSE pathJoin(<<base, "browse/refs/heads", ref, "--", path>>)
      [] d = "default"    -> pathJoin(<<base, "src", ref, path>>)

\* field treeURL of descriptor d
treeURL(d, base, ref, path) ==
    CASE d = "github"     -> pathJoin(<<base, "tree", ref, path>>)
      [] d = "gitlab"     -> pathJoin(<<base, "-/tree", ref, path>>)
      [] d = "bitbucket"  -> pathJoin(<<base, "src", ref, path>>)
      [] d = "azure"      -> IF path = ""
                             THEN base \o "?version=GB" \o ref
                             ELSE base \o "?version=GB" \o ref \o "&path=/" \o path
      [] d = "gitea"      -> pathJoin(<<base, "src/branch", ref, path>>)
      [] d = "gogs"       -> pathJoin(<<base, "src", ref, path>>)
      [] d = "codecommit" -> IF path = ""
                             THEN pathJoin(<<base, "browse/refs/heads", ref, "--">>) \o "/"
                             ELSE pathJoin(<<base, "browse/refs/heads", ref, "--", path>>)
      [] d = "default"    -> pathJoin(<<base, "tree", ref, path>>)

\* a commitURL field without the commit-page case: always the file form
commitURLNoRoot(d, base, hash, path) ==
    CASE d \in {"github", "default"} -> pathJoin(<<base, "blob", hash, path>>)
      [] d = "gitlab"                -> pathJoin(<<base, "-/blob", hash, path>>)
      [] d \in {"bitbucket", "gogs"} -> pathJoin(<<base, "src", hash, path>>)
      [] d = "azure"                 -> base \o "?version=GC" \o hash \o "&path=/" \o path
      [] d = "gitea"                 -> pathJoin(<<base, "src/commit", hash, path>>)
      [] d = "codecommit"            -> pathJoin(<<base, "browse", hash, "--", path>>)

\* field commitURL of descriptor d
commitURL(d, base, hash, path) ==
    CASE d = "github"     -> IF path = "" THEN pathJoin(<<base, "commit", hash>>)
                             ELSE pathJoin(<<base, "blob", hash, path>>)
      [] d = "gitlab"     -> IF path = "" THEN pathJoin(<<base, "-/commit", hash>>)
                             ELSE pathJoin(<<base, "-/blob", hash, path>>)
      [] d = "bitbucket"  -> IF path = "" THEN pathJoin(<<base, "commits", hash>>)
                             ELSE pathJoin(<<base, "src", hash, path>>)
      [] d = "azure"      -> IF path = "" THEN pathJoin(<<base, "commit", hash>>)
                             ELSE base \o "?version=GC" \o hash \o "&path=/" \o path
      [] d = "gitea"      -> IF path = "" THEN pathJoin(<<base, "commit", hash>>)
                             ELSE pathJoin(<<base, "src/commit", hash, path>>)
      [] d = "gogs"       -> IF path = "" THEN pathJoin(<<base, "commit", hash>>)
                             ELSE pathJoin(<<base, "src", hash, path>>)
      [] d = "codecommit" -> IF path = "" THEN pathJoin(<<base, "commit", hash>>)
                             ELSE pathJoin(<<base, "browse", hash, "--", path>>)
      [] d = "default"    -> IF path = "" THEN pathJoin(<<base, "commit", hash>>)
                             ELSE pathJoin(<<base, "blob", hash, path>>)

\* lineAnchor fields in which CodeCommit gets GitHub-style anchors
lineAnchorCodeCommitLN(d, start, end) ==
    CASE d = "gitlab"     -> anchorGL(start, end)
      [] d = "bitbucket"  -> anchorBB(start, end)
      [] d = "azure"      -> anchorADO(start, end)
      [] OTHER            -> anchorLN(start, end)

\* field lineAnchor of descriptor d
lineAnchor(d, start, end) ==
    CASE d = "github"     -> anchorLN(start, end)
      [] d = "gitlab"     -> anchorGL(start, end)
      [] d = "bitbucket"  -> anchorBB(start, end)
      [] d = "azure"      -> anchorADO(start, end)
      [] d = "gitea"      -> anchorLN(start, end)
      [] d = "gogs"       -> anchorLN(start, end)
      [] d = "codecommit" -> ""
      [] d = "default"    -> anchorLN(start, end)

RECURSIVE detectLastMatch(_, _)
\* a scan in which the last matching descriptor wins
detectLastMatch(registry, baseURL) ==
    IF Len(registry) = 0 THEN defaultProvider
    ELSE IF match(registry[Len(registry)], baseURL) THEN registry[Len(registry)]
    ELSE detectLastMatch(SubSeq(registry, 1, Len(registry) - 1), baseURL)

RECURSIVE detectProvider(_, _)
\* detectProvider: the first descriptor of the registry whose matcher
\* accepts baseURL, else the default descriptor
detectProvider(registry, baseURL) ==
    IF Len(registry) = 0 THEN defaultProvider
    ELSE IF match(Head(registry), baseURL) THEN Head(registry)
    ELSE detectProvider(Tail(registry), baseURL)

\* a builder that takes the two parts of the line spec in the wrong order
buildWebURLMixed(registry, c, line, hash) ==
    LET parts == IF line # "" THEN SplitN2(line, "-") ELSE <<"">>
        s     == IF Len(parts) > 1 THEN parts[2] ELSE parts[1]
        e     == IF Len(parts) > 1 THEN parts[1] ELSE ""
        d     == detectProvider(registry, c.baseURL)
        u     == IF hash # ""
                 THEN commitURL(d, c.baseURL, hash, c.relPath)
                 ELSE treeURL(d, c.baseURL, c.branch, c.relPath)
    IN  [startLine |-> s, endLine |-> e, p |-> d, url |-> u,
         ret |-> u \o lineAnchor(d, s, e)]

\* a builder whose commit test is inverted
buildWebURLSwapped(registry, c, line, hash) ==
    LET parts == IF line # "" THEN SplitN2(line, "-") ELSE <<"">>
        s     == parts[1]
        e     == IF Len(parts) > 1 THEN parts[2] ELSE ""
        d     == detectProvider(registry, c.baseURL)
        u     == IF hash = ""
                 THEN commitURL(d, c.baseURL, hash, c.relPath)
                 ELSE treeURL(d, c.baseURL, c.branch, c.relPath)
    IN  [startLine |-> s, endLine |-> e, p |-> d, url |-> u,
         ret |-> u \o lineAnchor(d, s, e)]

\* buildWebURL: the locals it computes and the string it returns
buildWebURL(registry, c, line, hash) ==
    LET parts == IF line # "" THEN SplitN2(line, "-") ELSE <<"">>
        s     == parts[1]
        e     == IF Len(parts) > 1 THEN parts[2] ELSE ""
        d     == detectProvider(registry, c.baseURL)
        u     == IF hash # ""
                 THEN commitURL(d, c.baseURL, hash, c.relPath)
                 ELSE treeURL(d, c.baseURL, c.branch, c.relPath)
    IN  [startLine |-> s, endLine |-> e, p |-> d, url |-> u,
         ret |-> u \o lineAnchor(d, s, e)]

----------------------------------------------------------------------------
(* Further Go standard-library string functions, used by convertToHTTPS,   *)
(* parseArgs and the switch-based buildWebURL.                             *)

\* strings.TrimSuffix(s, suffix): one occurrence, at the end only
TrimSuffix(s, suffix) ==
    IF HasSuffix(s, suffix) THEN SubSeq(s, 1, Len(s) - Len(suffix)) ELSE s

\* strings.TrimPrefix(s, prefix)
TrimPrefix(s, prefix) ==
    IF HasPrefix(s, prefix) THEN SubSeq(s, Len(prefix) + 1, Len(s)) ELSE s

\* strings.Index(s, substr), 1-based; 0 when substr does not occur
IndexOf(s, substr) ==
    IF Contains(s, substr)
    THEN CHOOSE i \in 1..(Len(s) - Len(substr) + 1) :
            /\ SubSeq(s, i, i + Len(substr) - 1) = substr
            /\ \A j \in 1..(i - 1) : SubSeq(s, j, j + Len(substr) - 1) # substr
    ELSE 0

\* strings.Replace(s, old, new, 1): the first occurrence only
Replace1(s, old, new) ==
    IF IndexOf(s, old) = 0 THEN s
    ELSE SubSeq(s, 1, IndexOf(s, old) - 1) \o new
            \o SubSeq(s, IndexOf(s, old) + Len(old), Len(s))

RECURSIVE Split(_, _)
\* strings.Split(s, sep) for a one-character sep: every part
Split(s, sep) ==
    IF Index(s, sep) = 0 THEN <<s>>
    ELSE <<SubSeq(s, 1, Index(s, sep) - 1)>>
            \o Split(SubSeq(s, Index(s, sep) + 1, Len(s)), sep)

----------------------------------------------------------------------------
(* convertToHTTPS (url.go).                                                *)

\* sshRegex.FindStringSubmatch(s) for ^git@([^:]+):(.+)$ : the two groups,
\* or <<>> when s does not match.  The first group is greedy but cannot
\* cross a ':', so it ends at the first ':' after "git@"; both groups need
\* one character at least.  (No input here holds a newline, the one
\* character '.' rejects.)
sshRegexSubmatch(s) ==
    LET rest  == SubSeq(s, 5, Len(s))
        colon == Index(rest, ":")
    IN  IF HasPrefix(s, "git@") /\ colon > 1 /\ colon < Len(rest)
        THEN <<SubSeq(rest, 1, colon - 1), SubSeq(rest, colon + 1, Len(rest))>>
        ELSE <<>>

\* a normalizer that keeps the ".git" suffix
convertToHTTPSKeepSuffix(raw) ==
    LET matches == sshRegexSubmatch(raw)
    IN  IF matches # <<>>
        THEN "https://" \o matches[1] \o "/" \o matches[2]
        ELSE IF HasPrefix(raw, "ssh://")
        THEN "https://" \o Replace1(TrimPrefix(TrimPrefix(raw, "ssh://"), "git@"), ":", "/")
        ELSE IF HasPrefix(raw, "git://")
        THEN Replace1(raw, "git://", "https://")
        ELSE raw

\* convertToHTTPS: the remote URL rewritten for the browser
convertToHTTPS(raw) ==
    LET u       == TrimSuffix(raw, ".git")
        matches == sshRegexSubmatch(u)
    IN  IF matches # <<>>
        THEN "https://" \o matches[1] \o "/" \o matches[2]
        ELSE IF HasPrefix(u, "ssh://")
        THEN "https://" \o Replace1(TrimPrefix(TrimPrefix(u, "ssh://"), "git@"), ":", "/")
        ELSE IF HasPrefix(u, "git://")
        THEN Replace1(u, "git://", "https://")
        ELSE u

----------------------------------------------------------------------------
(* parseArgs (args.go).                                                    *)

\* a config in which the remote has no default
DefaultConfigNoRemote ==
    [version |-> FALSE, remoteName |-> "", copy |-> FALSE, line |-> "",
     commit |-> "", paths |-> <<>>]

\* cfg := config{remoteName: "origin"}: every other field has its zero value
DefaultConfig ==
    [version |-> FALSE, remoteName |-> "origin", copy |-> FALSE, line |-> "",
     commit |-> "", paths |-> <<>>]

RECURSIVE parseFromFlagsFirst(_, _, _)
\* a parser that stops looking for flags at the first positional argument,
\* as the standard flag package does
parseFromFlagsFirst(a, i, c) ==
    IF i > Len(a) THEN [cfg |-> c, err |-> ""]
    ELSE
      LET arg     == a[i]
          missing == [cfg |-> c, err |-> "flag " \o arg \o " requires a value"]
      IN
      CASE arg \in {"-v", "--version"} ->
              parseFromFlagsFirst(a, i + 1, [c EXCEPT !.version = TRUE])
        [] arg \in {"-c", "--copy"} ->
              parseFromFlagsFirst(a, i + 1, [c EXCEPT !.copy = TRUE])
        [] arg \in {"-r", "--remote"} ->
              IF i + 1 > Len(a) THEN missing
              ELSE parseFromFlagsFirst(a, i + 2, [c EXCEPT !.remoteName = a[i + 1]])
        [] arg \in {"-l", "--line"} ->
              IF i + 1 > Len(a) THEN missing
              ELSE parseFromFlagsFirst(a, i + 2, [c EXCEPT !.line = a[i + 1]])
        [] arg = "--commit" ->
              IF i + 1 > Len(a) THEN missing
              ELSE parseFromFlagsFirst(a, i + 2, [c EXCEPT !.commit = a[i + 1]])
        [] arg = "--" ->
              [cfg |-> [c EXCEPT !.paths = @ \o SubSeq(a, i + 1, Len(a))], err |-> ""]
        [] OTHER ->
              IF HasPrefix(arg, "--remote=")
              THEN parseFromFlagsFirst(a, i + 1,
                        [c EXCEPT !.remoteName = SubSeq(arg, Len("--remote=") + 1, Len(arg))])
              ELSE IF HasPrefix(arg, "--line=")
              THEN parseFromFlagsFirst(a, i + 1,
                        [c EXCEPT !.line = SubSeq(arg, Len("--line=") + 1, Len(arg))])
              ELSE IF HasPrefix(arg, "--commit=")
              THEN parseFromFlagsFirst(a, i + 1,
                        [c EXCEPT !.commit = SubSeq(arg, Len("--commit=") + 1, Len(arg))])
              ELSE IF Len(arg) > 2 /\ HasPrefix(arg, "-r")
              THEN parseFromFlagsFirst(a, i + 1, [c EXCEPT !.remoteName = SubSeq(arg, 3, Len(arg))])
              ELSE IF Len(arg) > 2 /\ HasPrefix(arg, "-l")
              THEN parseFromFlagsFirst(a, i + 1, [c EXCEPT !.line = SubSeq(arg, 3, Len(arg))])
              ELSE IF HasPrefix(arg, "-")
              THEN [cfg |-> c, err |-> "unknown flag: " \o arg]
              ELSE [cfg |-> [c EXCEPT !.paths = @ \o SubSeq(a, i, Len(a))], err |-> ""]

RECURSIVE parseFrom(_, _, _)
\* the loop of parseArgs from position i on, with the config c built so
\* far: the config and the error it returns ("" is nil)
parseFrom(a, i, c) ==
    IF i > Len(a) THEN [cfg |-> c, err |-> ""]
    ELSE
      LET arg     == a[i]
          \* nextVal when no token is left
          missing == [cfg |-> c, err |-> "flag " \o arg \o " requires a value"]
      IN
      CASE arg \in {"-v", "--version"} ->
              parseFrom(a, i + 1, [c EXCEPT !.version = TRUE])
        [] arg \in {"-c", "--copy"} ->
              parseFrom(a, i + 1, [c EXCEPT !.copy = TRUE])
        [] arg \in {"-r", "--remote"} ->
              IF i + 1 > Len(a) THEN missing
              ELSE parseFrom(a, i + 2, [c EXCEPT !.remoteName = a[i + 1]])
        [] arg \in {"-l", "--line"} ->
              IF i + 1 > Len(a) THEN missing
              ELSE parseFrom(a, i + 2, [c EXCEPT !.line = a[i + 1]])
        [] arg = "--commit" ->
              IF i + 1 > Len(a) THEN missing
              ELSE parseFrom(a, i + 2, [c EXCEPT !.commit = a[i + 1]])
        [] arg = "--" ->
              [cfg |-> [c EXCEPT !.paths = @ \o SubSeq(a, i + 1, Len(a))], err |-> ""]
        [] OTHER ->
              IF HasPrefix(arg, "--remote=")
              THEN parseFrom(a, i + 1,
                        [c EXCEPT !.remoteName = SubSeq(arg, Len("--remote=") + 1, Len(arg))])
              ELSE IF HasPrefix(arg, "--line=")
              THEN parseFrom(a, i + 1,
                        [c EXCEPT !.line = SubSeq(arg, Len("--line=") + 1, Len(arg))])
              ELSE IF HasPrefix(arg, "--commit=")
              THEN parseFrom(a, i + 1,
                        [c EXCEPT !.commit = SubSeq(arg, Len("--commit=") + 1, Len(arg))])
              ELSE IF Len(arg) > 2 /\ HasPrefix(arg, "-r")
              THEN parseFrom(a, i + 1, [c EXCEPT !.remoteName = SubSeq(arg, 3, Len(arg))])
              ELSE IF Len(arg) > 2 /\ HasPrefix(arg, "-l")
              THEN parseFrom(a, i + 1, [c EXCEPT !.line = SubSeq(arg, 3, Len(arg))])
              ELSE IF HasPrefix(arg, "-")
              THEN [cfg |-> c, err |-> "unknown flag: " \o arg]
              ELSE parseFrom(a, i + 1, [c EXCEPT !.paths = Append(@, arg)])

\* parseArgs(args): the loop from the first argument, from the default config
parseArgs(a) == parseFrom(a, 1, DefaultConfig)

----------------------------------------------------------------------------
(* main's collaborators (repo.go).  What the file system and git answer is *)
(* given by an environment e: e.getwd and e.exists tell whether os.Getwd   *)
(* succeeds and whether the target exists, e.steps[k] whether step k of    *)
(* getRepoContext succeeds, e.sink whether the output command succeeds;    *)
(* e.remotes maps each configured remote to its URL, e.branch and e.root   *)
(* are the current branch and the repository root.                         *)

\* repoContext{}: the zero context
EmptyContext == [baseURL |-> "", branch |-> "", relPath |-> ""]

\* the working directory of the process (GIT_PREFIX is not set)
Cwd == "/work"

\* filepath.IsAbs on a Unix path
IsAbs(path) == HasPrefix(path, "/")

\* resolvePath(cfg): the absolute target path and the error ("" is nil)
resolvePath(c, e) ==
    LET first  == IF Len(c.paths) > 0 THEN c.paths[1] ELSE ""
        useCwd == Len(c.paths) = 0 \/ ~IsAbs(first)
        t      == IF Len(c.paths) = 0 THEN Cwd
                  ELSE IF IsAbs(first) THEN first
                  ELSE pathJoin(<<Cwd, first>>)
    IN  IF useCwd /\ ~e.getwd THEN [path |-> "", err |-> "getwd"]
        ELSE IF ~e.exists THEN [path |-> "", err |-> "path does not exist: " \o t]
        ELSE [path |-> t, err |-> ""]

\* the steps of getRepoContext that can fail, in the order they run, each
\* named by the error it reports: os.Stat, isGitRepo, getGitRemoteURL,
\* getCurrentBranch, getRepoRoot, filepath.Rel
RepoSteps ==
    <<"stat", "not in a git repository", "failed to get remote URL",
      "failed to get current branch", "failed to get repo root", "rel">>

\* step k of getRepoContext succeeds; git knows the configured remotes only
StepOK(k, remoteName, e) ==
    e.steps[k] /\ (RepoSteps[k] = "failed to get remote URL" => remoteName \in DOMAIN e.remotes)

\* filepath.Rel(root, target) for a target at or under root
Rel(root, target) ==
    IF target = root THEN "." ELSE TrimPrefix(target, root \o "/")

\* a getRepoContext that reports the error of the last failing step
getRepoContextLastError(target, remoteName, e) ==
    IF ~StepOK(6, remoteName, e) THEN [ctx |-> EmptyContext, err |-> RepoSteps[6]]
    ELSE IF ~StepOK(5, remoteName, e) THEN [ctx |-> EmptyContext, err |-> RepoSteps[5]]
    ELSE IF ~StepOK(4, remoteName, e) THEN [ctx |-> EmptyContext, err |-> RepoSteps[4]]
    ELSE IF ~StepOK(3, remoteName, e) THEN [ctx |-> EmptyContext, err |-> RepoSteps[3]]
    ELSE IF ~StepOK(2, remoteName, e) THEN [ctx |-> EmptyContext, err |-> RepoSteps[2]]
    ELSE IF ~StepOK(1, remoteName, e) THEN [ctx |-> EmptyContext, err |-> RepoSteps[1]]
    ELSE LET rel == Rel(e.root, target)
         IN  [ctx |-> [baseURL |-> convertToHTTPS(e.remotes[remoteName]),
                       branch  |-> e.branch,
                       relPath |-> IF rel = "." THEN "" ELSE rel],
              err |-> ""]

\* getRepoContext(targetPath, remoteName): the context and the error; the
\* steps run in order and the first failure returns
getRepoContext(target, remoteName, e) ==
    IF ~StepOK(1, remoteName, e) THEN [ctx |-> EmptyContext, err |-> RepoSteps[1]]
    ELSE IF ~StepOK(2, remoteName, e) THEN [ctx |-> EmptyContext, err |-> RepoSteps[2]]
    ELSE IF ~StepOK(3, remoteName, e) THEN [ctx |-> EmptyContext, err |-> RepoSteps[3]]
    ELSE IF ~StepOK(4, remoteName, e) THEN [ctx |-> EmptyContext, err |-> RepoSteps[4]]
    ELSE IF ~StepOK(5, remoteName, e) THEN [ctx |-> EmptyContext, err |-> RepoSteps[5]]
    ELSE IF ~StepOK(6, remoteName, e) THEN [ctx |-> EmptyContext, err |-> RepoSteps[6]]
    ELSE LET rel == Rel(e.root, target)
         IN  [ctx |-> [baseURL |-> convertToHTTPS(e.remotes[remoteName]),
                       branch  |-> e.branch,
                       relPath |-> IF rel = "." THEN "" ELSE rel],
              err |-> ""]

\* an environment in which nothing fails
QuietEnv ==
    [getwd |-> TRUE, exists |-> TRUE, steps |-> [k \in 1..Len(RepoSteps) |-> TRUE],
     sink |-> TRUE, remotes |-> [n \in {"origin"} |-> "https://github.com/u/r"],
     branch |-> "main", root |-> Cwd]

\* convertToHTTPS, parseArgs and main have not run
CliIdle ==
    /\ remoteURL = ""
    /\ httpsURL = ""
    /\ args = <<>>
    /\ cfg = DefaultConfig
    /\ err = ""
    /\ env = QuietEnv
    /\ targetPath = ""
    /\ trace = <<>>
    /\ exitStatus = <<>>

\* buildWebURL, its test loop and pathJoin have not run
UrlIdle ==
    /\ providers = ProviderTable
    /\ ctx = EmptyContext
    /\ lineNumber = ""
    /\ commitHash = ""
    /\ startLine = ""
    /\ endLine = ""
    /\ p = ""
    /\ url = ""
    /\ webURL = ""
    /\ results = <<>>
    /\ joinParts = <<>>
    /\ joined = ""

----------------------------------------------------------------------------
(* The switch-based buildWebURL of the single-file main.go.                *)

\* buildWebURL(baseURL, branch, relPath, lineNumber, commitHash): one case
\* per platform, tried in order; fmt.Sprintf is concatenation
buildWebURLSwitch(baseURL, branch, rel0, line, hash) ==
    LET rel   == IF rel0 = "." \/ rel0 = "" THEN "" ELSE rel0
        parts == IF line # "" THEN Split(line, "-") ELSE <<"">>
        s     == parts[1]
        e     == IF Len(parts) > 1 THEN parts[2] ELSE ""
        \* the URL of a platform that differs from GitHub in its segments only
        segs(commitSeg, blobSeg, treeSeg) ==
            IF hash # ""
            THEN IF rel = "" THEN baseURL \o "/" \o commitSeg \o "/" \o hash
                 ELSE baseURL \o "/" \o blobSeg \o "/" \o hash \o "/" \o rel
            ELSE IF rel = "" THEN baseURL \o "/" \o treeSeg \o "/" \o branch
            ELSE baseURL \o "/" \o treeSeg \o "/" \o branch \o "/" \o rel
        fragLN == IF s = "" THEN ""
                  ELSE IF e # "" THEN "#L" \o s \o "-L" \o e ELSE "#L" \o s
        fragGL == IF s = "" THEN ""
                  ELSE IF e # "" THEN "#L" \o s \o "-" \o e ELSE "#L" \o s
        fragBB == IF s = "" THEN ""
                  ELSE IF e # "" THEN "#lines-" \o s \o ":" \o e ELSE "#lines-" \o s
        fragADO == IF s = "" THEN ""
                   ELSE IF e # ""
                   THEN "&line=" \o s \o "&lineEnd=" \o e \o "&lineStartColumn=1&lineEndColumn=1"
                   ELSE "&line=" \o s \o "&lineEnd=" \o s \o "&lineStartColumn=1&lineEndColumn=1"
    IN  IF Contains(baseURL, "github.com")
        THEN segs("commit", "blob", "tree") \o fragLN
        ELSE IF Contains(baseURL, "gitlab.com") \/ Contains(baseURL, "gitlab")
        THEN segs("-/commit", "-/blob", "-/tree") \o fragGL
        ELSE IF Contains(baseURL, "bitbucket.org")
        THEN segs("commits", "src", "src") \o fragBB
        ELSE IF Contains(baseURL, "dev.azure.com") \/ Contains(baseURL, "visualstudio.com")
        THEN (IF hash # ""
              THEN IF rel = "" THEN baseURL \o "/commit/" \o hash
                   ELSE baseURL \o "?version=GC" \o hash \o "&path=/" \o rel
              ELSE IF rel = "" THEN baseURL \o "?version=GB" \o branch
              ELSE baseURL \o "?version=GB" \o branch \o "&path=/" \o rel) \o fragADO
        ELSE IF Contains(baseURL, "gitea")
        THEN segs("commit", "src/commit", "src/branch") \o fragLN
        ELSE IF Contains(baseURL, "gogs")
        THEN segs("commit", "src", "src") \o fragLN
        ELSE IF Contains(baseURL, "console.aws.amazon.com") \/ Contains(baseURL, "codecommit")
        THEN IF hash # ""
             THEN IF rel = "" THEN baseURL \o "/commit/" \o hash
                  ELSE baseURL \o "/browse/" \o hash \o "/--/" \o rel
             ELSE IF rel = "" THEN baseURL \o "/browse/refs/heads/" \o branch \o "/--/"
             ELSE baseURL \o "/browse/refs/heads/" \o branch \o "/--/" \o rel
        ELSE segs("commit", "blob", "tree") \o fragLN

----------------------------------------------------------------------------
(* Inputs.                                                                 *)

\* all strings over alphabet of length at most n
RECURSIVE StringsUpTo(_, _)
StringsUpTo(alphabet, n) ==
    IF n = 0 THEN {""}
    ELSE LET shorter == StringsUpTo(alphabet, n - 1)
         IN  shorter \cup {w \o a : w \in shorter, a \in alphabet}

\* raw line specs: digits and dashes in any arrangement
LineSpecs == StringsUpTo({"4", "5", "-"}, MaxLineLen)

\* the substrings the matchers look for, and a host none of them accepts
Fragments ==
    {"github.com", "gitlab.com", "gitlab", "bitbucket.org", "dev.azure.com",
     "visualstudio.com", "gitea", "gogs", "console.aws.amazon.com",
     "codecommit", "example.org", "gitlabmirror"}

\* "https://" followed by at most n fragments and the repository name,
\* joined by "/"
BaseURLsOf(n) ==
    {"https://" \o Join(fs \o <<"repo">>, "/") :
        fs \in UNION {[1..k -> Fragments] : k \in 0..n}}

\* longer line specs, with several dashes among the digits
LongLineSpecs == StringsUpTo({"4", "5", "-"}, MaxLongLineLen)

\* one base URL for each line-anchor builder
AnchorBaseURLs ==
    {"https://github.com/repo", "https://gitlab.com/repo", "https://bitbucket.org/repo",
     "https://dev.azure.com/repo", "https://codecommit/repo"}

\* base URLs with one fragment, and the empty base a remote URL ".git" yields
SimpleBaseURLs == BaseURLsOf(1) \cup {""}

\* base URLs in which several matchers can compete
MixedBaseURLs == BaseURLsOf(MaxFragments)

\* git reports a branch name, or HEAD when detached, never an empty string
Branches == {"main", "HEAD"}

\* repository root, a file, and a file under a directory named "tree"
RelPaths == {"", "main.go", "tree/x"}

\* no commit, a hash, a commit given by the name of the current branch, and a
\* commit given by a full ref name
CommitHashes == {"", "abc1234", "main", "refs/heads/main"}

----------------------------------------------------------------------------
(* The state machine: main has a repoContext and calls buildWebURL once.   *)

Init ==
    /\ providers = ProviderTable
    /\ \/ /\ ctx \in [baseURL : MixedBaseURLs, branch : {"main"}, relPath : {"main.go", ""}]
          /\ lineNumber \in {"", "4-5"}
          /\ commitHash \in {"", "abc1234", "main"}
       \/ /\ ctx \in [baseURL : SimpleBaseURLs, branch : Branches, relPath : RelPaths]
          /\ lineNumber \in LineSpecs
          /\ commitHash \in CommitHashes
       \/ /\ ctx \in [baseURL : AnchorBaseURLs, branch : {"main"}, relPath : {"main.go"}]
          /\ lineNumber \in LongLineSpecs
          /\ commitHash \in {"", "abc1234"}
    /\ startLine = ""
    /\ endLine = ""
    /\ p = ""
    /\ url = ""
    /\ webURL = ""
    /\ results = <<>>
    /\ joinParts = <<>>
    /\ joined = ""
    /\ CliIdle
    /\ pc = "build"

\* main.go: webURL := buildWebURL(ctx, cfg.line, cfg.commit)
BuildWebURL ==
    /\ pc = "build"
    /\ LET r == buildWebURL(providers, ctx, lineNumber, commitHash)
       IN  /\ startLine' = r.startLine
           /\ endLine' = r.endLine
           /\ p' = r.p
           /\ url' = r.url
           /\ webURL' = r.ret
    /\ pc' = "done"
    /\ UNCHANGED <<providers, ctx, lineNumber, commitHash, results, joinParts, joined, cliVars>>

Next == BuildWebURL

Spec == Init /\ [][Next]_vars

----------------------------------------------------------------------------
(* The test loop of TestBuildWebURL: buildWebURL is invoked for one case   *)
(* after another, in any order, and each result is kept.                   *)

\* the cases the loop may run: a base two matchers accept, one none
\* accepts, an Azure one; with and without line spec and commit hash
CallInputs ==
    [ctx  : [baseURL : {"https://github.com/gitlab/repo", "https://example.org/repo",
                        "https://dev.azure.com/repo"},
             branch  : {"main"},
             relPath : {"main.go"}],
     line : {"", "4-5"},
     hash : {"", "abc1234"}]

\* the registry back to front
ReversedTable ==
    [i \in 1..Len(ProviderTable) |-> ProviderTable[Len(ProviderTable) + 1 - i]]

InitCalls ==
    /\ providers = ProviderTable
    /\ ctx = [baseURL |-> "", branch |-> "", relPath |-> ""]
    /\ lineNumber = ""
    /\ commitHash = ""
    /\ startLine = ""
    /\ endLine = ""
    /\ p = ""
    /\ url = ""
    /\ webURL = ""
    /\ results = <<>>
    /\ joinParts = <<>>
    /\ joined = ""
    /\ CliIdle
    /\ pc = "loop"

\* an invocation that leaves the registry reordered
RunCaseReordering(in) ==
    /\ pc = "loop"
    /\ Len(results) < MaxCalls
    /\ LET r == buildWebURL(providers, in.ctx, in.line, in.hash)
       IN  /\ startLine' = r.startLine
           /\ endLine' = r.endLine
           /\ p' = r.p
           /\ url' = r.url
           /\ webURL' = r.ret
           /\ results' = Append(results, [ctx |-> in.ctx, lineNumber |-> in.line,
                                          commitHash |-> in.hash, got |-> r.ret])
    /\ ctx' = in.ctx
    /\ lineNumber' = in.line
    /\ commitHash' = in.hash
    /\ providers' = ReversedTable
    /\ UNCHANGED <<joinParts, joined, pc, cliVars>>

\* one iteration: got := buildWebURL(tt.ctx, tt.lineNumber, tt.commitHash)
RunCase(in) ==
    /\ pc = "loop"
    /\ Len(results) < MaxCalls
    /\ LET r == buildWebURL(providers, in.ctx, in.line, in.hash)
       IN  /\ startLine' = r.startLine
           /\ endLine' = r.endLine
           /\ p' = r.p
           /\ url' = r.url
           /\ webURL' = r.ret
           /\ results' = Append(results, [ctx |-> in.ctx, lineNumber |-> in.line,
                                          commitHash |-> in.hash, got |-> r.ret])
    /\ ctx' = in.ctx
    /\ lineNumber' = in.line
    /\ commitHash' = in.hash
    /\ UNCHANGED <<providers, joinParts, joined, pc, cliVars>>

NextCalls == \E in \in CallInputs : RunCase(in)

SpecCalls == InitCalls /\ [][NextCalls]_vars

----------------------------------------------------------------------------
(* pathJoin applied to a list of segments.                                 *)

\* an empty segment, plain ones, one with an inner slash, and ones with a
\* slash at an edge
JoinSegments == {"", "a", "b/c", "d/", "/e"}

\* argument lists of at most MaxParts segments
JoinInputs == UNION {[1..k -> JoinSegments] : k \in 0..MaxParts}

InitJoin ==
    /\ providers = ProviderTable
    /\ ctx = [baseURL |-> "", branch |-> "", relPath |-> ""]
    /\ lineNumber = ""
    /\ commitHash = ""
    /\ startLine = ""
    /\ endLine = ""
    /\ p = ""
    /\ url = ""
    /\ webURL = ""
    /\ results = <<>>
    /\ joinParts \in JoinInputs
    /\ joined = ""
    /\ CliIdle
    /\ pc = "join"

\* joined := pathJoin(parts...)
CallPathJoin ==
    /\ pc = "join"
    /\ joined' = pathJoin(joinParts)
    /\ pc' = "joined"
    /\ UNCHANGED <<providers, ctx, lineNumber, commitHash, startLine, endLine, p, url,
                   webURL, results, joinParts, cliVars>>

NextJoin == CallPathJoin

SpecJoin == InitJoin /\ [][NextJoin]_vars

----------------------------------------------------------------------------
(* convertToHTTPS applied to a remote URL.                                 *)

\* what may stand before the host: the schemes convertToHTTPS rewrites,
\* the ones it passes through, a user other than git, a local path
RemotePrefixes ==
    {"git@", "ssh://", "ssh://git@", "ssh://alice@", "git://", "https://", "http://",
     "alice@", "", "/srv/"}

\* hosts: plain, empty, with a port, with a ':'-free "git@" inside
RemoteHosts == {"github.com", "h", "", "h:22", "git@h"}

\* repository paths: plain, empty, with a ':', ending in ".git" already
RemotePaths == {"u/r", "", "a:b", "r.git"}

\* remote URLs as `git remote get-url` prints them (one line, trimmed)
RemoteURLs ==
    {pre \o host \o sep \o path \o suffix :
        pre \in RemotePrefixes, host \in RemoteHosts, sep \in {":", "/"},
        path \in RemotePaths, suffix \in {"", ".git"}}
    \cup {"", ".git", "git@", "git@.git", "ssh://", "git://"}

InitConvert ==
    /\ UrlIdle
    /\ remoteURL \in RemoteURLs
    /\ httpsURL = ""
    /\ args = <<>>
    /\ cfg = DefaultConfig
    /\ err = ""
    /\ env = QuietEnv
    /\ targetPath = ""
    /\ trace = <<>>
    /\ exitStatus = <<>>
    /\ pc = "convert"

\* repo.go: baseURL: convertToHTTPS(remoteURL)
CallConvertToHTTPS ==
    /\ pc = "convert"
    /\ httpsURL' = convertToHTTPS(remoteURL)
    /\ pc' = "converted"
    /\ UNCHANGED <<urlVars, remoteURL, args, cfg, err, env, targetPath, trace, exitStatus>>

NextConvert == CallConvertToHTTPS

SpecConvert == InitConvert /\ [][NextConvert]_vars

----------------------------------------------------------------------------
(* parseArgs applied to an argument list.                                  *)

\* tokens: boolean flags, value flags, the separator, attached forms, an
\* unknown flag, a lone dash, and two positional arguments
ArgTokens ==
    {"-v", "-c", "--copy", "-l", "--line", "-r", "--commit", "--", "-l4",
     "--remote=up", "-x", "-", "f", "g"}

\* values given to a value flag: a line, a range, one that looks like a
\* flag, one with an '='
FlagValues == {"4", "4-5", "-c", "x=y"}

\* one value flag with its value, in each of its spellings
FlagForms ==
    UNION {{<<"--line", v>>, <<"--line=" \o v>>, <<"-l", v>>, <<"-l" \o v>>,
            <<"--remote", v>>, <<"--remote=" \o v>>, <<"-r", v>>, <<"-r" \o v>>,
            <<"--commit", v>>, <<"--commit=" \o v>>} : v \in FlagValues}

\* argument lists of at most MaxArgs tokens, and the flag forms
ArgLists == UNION {[1..k -> ArgTokens] : k \in 0..MaxArgs} \cup FlagForms

InitArgs ==
    /\ UrlIdle
    /\ remoteURL = ""
    /\ httpsURL = ""
    /\ args \in ArgLists
    /\ cfg = DefaultConfig
    /\ err = ""
    /\ env = QuietEnv
    /\ targetPath = ""
    /\ trace = <<>>
    /\ exitStatus = <<>>
    /\ pc = "parse"

\* main.go: cfg, err := parseArgs(os.Args[1:])
CallParseArgs ==
    /\ pc = "parse"
    /\ cfg' = parseArgs(args).cfg
    /\ err' = parseArgs(args).err
    /\ pc' = "parsed"
    /\ UNCHANGED <<urlVars, remoteURL, httpsURL, args, env, targetPath, trace, exitStatus>>

NextArgs == CallParseArgs

SpecArgs == InitArgs /\ [][NextArgs]_vars

----------------------------------------------------------------------------
(* main: the stages from the command line to the output sink.  pc names    *)
(* the stage that runs next; "exit" once the process has ended.            *)

\* command lines: none, copy, version, a file with a line, a missing value,
\* an unknown flag, a remote that is not configured, a commit with a file
MainArgs ==
    {<<>>, <<"-c">>, <<"-v">>, <<"main.go", "-l", "4">>, <<"-l">>, <<"--bogus">>,
     <<"-r", "upstream", "-c">>, <<"--commit", "abc1234", "-c", "--", "main.go">>}

\* remote URLs of origin: an SSH one and an Azure DevOps one
MainRemotes == {"git@github.com:u/r.git", "https://dev.azure.com/o/p/_git/r"}

\* every way the file system, git and the output command can answer
Envs ==
    [getwd   : BOOLEAN,
     exists  : BOOLEAN,
     steps   : [1..Len(RepoSteps) -> BOOLEAN],
     sink    : BOOLEAN,
     remotes : {[n \in {"origin"} |-> u] : u \in MainRemotes},
     branch  : {"main"},
     root    : {Cwd}]

InitMain ==
    /\ UrlIdle
    /\ remoteURL = ""
    /\ httpsURL = ""
    /\ args \in MainArgs
    /\ cfg = DefaultConfig
    /\ err = ""
    /\ env \in Envs
    /\ targetPath = ""
    /\ trace = <<>>
    /\ exitStatus = <<>>
    /\ pc = "parseArgs"

\* cfg, err := parseArgs(os.Args[1:]); on error usage() and os.Exit(1)
MainParseArgs ==
    /\ pc = "parseArgs"
    /\ cfg' = parseArgs(args).cfg
    /\ err' = parseArgs(args).err
    /\ trace' = Append(trace, "parseArgs")
    /\ IF parseArgs(args).err # ""
       THEN exitStatus' = <<1>> /\ pc' = "exit"
       ELSE exitStatus' = exitStatus /\ pc' = "version"
    /\ UNCHANGED <<urlVars, remoteURL, httpsURL, args, env, targetPath>>

\* if cfg.version { print; os.Exit(0) }
MainVersion ==
    /\ pc = "version"
    /\ trace' = Append(trace, "version")
    /\ IF cfg.version
       THEN exitStatus' = <<0>> /\ pc' = "exit"
       ELSE exitStatus' = exitStatus /\ pc' = "resolvePath"
    /\ UNCHANGED <<urlVars, remoteURL, httpsURL, args, cfg, err, env, targetPath>>

\* targetPath, err := resolvePath(cfg); on error os.Exit(1)
MainResolvePath ==
    /\ pc = "resolvePath"
    /\ targetPath' = resolvePath(cfg, env).path
    /\ err' = resolvePath(cfg, env).err
    /\ trace' = Append(trace, "resolvePath")
    /\ IF resolvePath(cfg, env).err # ""
       THEN exitStatus' = <<1>> /\ pc' = "exit"
       ELSE exitStatus' = exitStatus /\ pc' = "getRepoContext"
    /\ UNCHANGED <<urlVars, remoteURL, httpsURL, args, cfg, env>>

\* ctx, err := getRepoContext(targetPath, cfg.remoteName); on error os.Exit(1)
MainGetRepoContext ==
    /\ pc = "getRepoContext"
    /\ LET r == getRepoContext(targetPath, cfg.remoteName, env)
       IN  /\ ctx' = r.ctx
           /\ err' = r.err
           /\ remoteURL' = IF r.err = "" THEN env.remotes[cfg.remoteName] ELSE remoteURL
           /\ httpsURL' = IF r.err = "" THEN r.ctx.baseURL ELSE httpsURL
           /\ IF r.err # ""
              THEN exitStatus' = <<1>> /\ pc' = "exit"
              ELSE exitStatus' = exitStatus /\ pc' = "buildWebURL"
    /\ trace' = Append(trace, "getRepoContext")
    /\ UNCHANGED <<providers, lineNumber, commitHash, startLine, endLine, p, url, webURL,
                   results, joinParts, joined, args, cfg, env, targetPath>>

\* webURL := buildWebURL(ctx, cfg.line, cfg.commit)
MainBuildWebURL ==
    /\ pc = "buildWebURL"
    /\ LET r == buildWebURL(providers, ctx, cfg.line, cfg.commit)
       IN  /\ startLine' = r.startLine
           /\ endLine' = r.endLine
           /\ p' = r.p
           /\ url' = r.url
           /\ webURL' = r.ret
    /\ lineNumber' = cfg.line
    /\ commitHash' = cfg.commit
    /\ trace' = Append(trace, "buildWebURL")
    /\ pc' = "sink"
    /\ UNCHANGED <<providers, ctx, results, joinParts, joined, remoteURL, httpsURL, args,
                   cfg, err, env, targetPath, exitStatus>>

\* if cfg.copy: copyToClipboard(webURL); on error os.Exit(1), else main returns
MainCopyToClipboard ==
    /\ pc = "sink"
    /\ cfg.copy
    /\ trace' = Append(trace, "copyToClipboard")
    /\ err' = IF env.sink THEN "" ELSE "copying to clipboard"
    /\ exitStatus' = IF env.sink THEN <<0>> ELSE <<1>>
    /\ pc' = "exit"
    /\ UNCHANGED <<urlVars, remoteURL, httpsURL, args, cfg, env, targetPath>>

\* else: openBrowser(webURL); on error os.Exit(1), else main returns
MainOpenBrowser ==
    /\ pc = "sink"
    /\ ~cfg.copy
    /\ trace' = Append(trace, "openBrowser")
    /\ err' = IF env.sink THEN "" ELSE "opening browser"
    /\ exitStatus' = IF env.sink THEN <<0>> ELSE <<1>>
    /\ pc' = "exit"
    /\ UNCHANGED <<urlVars, remoteURL, httpsURL, args, cfg, env, targetPath>>

NextMain ==
    \/ MainParseArgs
    \/ MainVersion
    \/ MainResolvePath
    \/ MainGetRepoContext
    \/ MainBuildWebURL
    \/ MainCopyToClipboard
    \/ MainOpenBrowser

SpecMain == InitMain /\ [][NextMain]_vars

----------------------------------------------------------------------------
TypeOK ==
    /\ pc \in {"build", "done", "loop", "join", "joined", "convert", "converted",
              "parse", "parsed", "parseArgs", "version", "resolvePath",
              "getRepoContext", "buildWebURL", "sink", "exit"}
    /\ exitStatus \in {<<>>, <<0>>, <<1>>}
    /\ cfg \in [version : BOOLEAN, remoteName : STRING, copy : BOOLEAN, line : STRING,
                commit : STRING, paths : Seq(STRING)]
    /\ p \in {""} \cup {defaultProvider} \cup {providers[i] : i \in 1..Len(providers)}

----------------------------------------------------------------------------
(* Vocabulary of the properties.                                           *)

\* what buildWebURL appended to url: the line anchor
Anchor == SubSeq(webURL, Len(url) + 1, Len(webURL))

\* what buildWebURL placed after the base URL, before the anchor
AfterBase == SubSeq(url, Len(ctx.baseURL) + 1, Len(url))

\* indices of the registry entries whose matcher accepts the base URL
Matching == {i \in 1..Len(providers) : match(providers[i], ctx.baseURL)}

\* descriptors that build their URLs with pathJoin only
SlashProviders == {"github", "gitlab", "bitbucket", "gitea", "gogs", "default"}

\* the base URL is routed to Azure DevOps, stated on the URL text
IsAzureBase ==
    /\ Contains(ctx.baseURL, "dev.azure.com") \/ Contains(ctx.baseURL, "visualstudio.com")
    /\ ~Contains(ctx.baseURL, "github.com")
    /\ ~Contains(ctx.baseURL, "gitlab")
    /\ ~Contains(ctx.baseURL, "bitbucket.org")

\* the base URL is routed to CodeCommit, stated on the URL text
IsCodeCommitBase ==
    /\ Contains(ctx.baseURL, "console.aws.amazon.com") \/ Contains(ctx.baseURL, "codecommit")
    /\ ~Contains(ctx.baseURL, "github.com")
    /\ ~Contains(ctx.baseURL, "gitlab")
    /\ ~Contains(ctx.baseURL, "bitbucket.org")
    /\ ~Contains(ctx.baseURL, "dev.azure.com")
    /\ ~Contains(ctx.baseURL, "visualstudio.com")
    /\ ~Contains(ctx.baseURL, "gitea")
    /\ ~Contains(ctx.baseURL, "gogs")

\* the branch-browsing path shape of each platform
BranchShape(d) ==
    CASE d \in {"github", "default"} -> "tree/"
      [] d = "gitlab"                -> "/-/tree/"
      [] d \in {"bitbucket", "gogs"} -> "src/" \o ctx.branch
      [] d = "gitea"                 -> "src/branch/"
      [] d = "azure"                 -> "?version=GB"
      [] d = "codecommit"            -> "browse/refs/heads/"

\* the segment between base and branch in a branch-browsing URL
TreeSegment(d) ==
    CASE d \in {"github", "default"} -> "tree"
      [] d = "gitlab"                -> "-/tree"
      [] d \in {"bitbucket", "gogs"} -> "src"
      [] d = "gitea"                 -> "src/branch"

\* the segment between base and hash on a commit page
CommitSegment(d) ==
    CASE d \in {"github", "default", "gitea", "gogs"} -> "commit"
      [] d = "gitlab"                                 -> "-/commit"
      [] d = "bitbucket"                              -> "commits"

\* the segment between base and hash for a file at a commit
BlobSegment(d) ==
    CASE d \in {"github", "default"} -> "blob"
      [] d = "gitlab"                -> "-/blob"
      [] d \in {"bitbucket", "gogs"} -> "src"
      [] d = "gitea"                 -> "src/commit"

----------------------------------------------------------------------------
(* C1: buildWebURL returns B ++ A, where B is the selected provider's      *)
(* commitURL(baseURL, commitHash, relPath) when commitHash is non-empty    *)
(* and its treeURL(baseURL, branch, relPath) otherwise, and A is that      *)
(* provider's lineAnchor(startLine, endLine); the same A is appended       *)
(* whichever commit hash is given.                                         *)
C1_BasePlusAnchor ==
    pc = "done" =>
        /\ url = IF commitHash # ""
                 THEN commitURL(p, ctx.baseURL, commitHash, ctx.relPath)
                 ELSE treeURL(p, ctx.baseURL, ctx.branch, ctx.relPath)
        /\ webURL = url \o lineAnchor(p, startLine, endLine)
        /\ \A h \in CommitHashes :
              LET r == buildWebURL(providers, ctx, lineNumber, h)
              IN  r.ret = r.url \o Anchor

C1_Witness ==
    /\ pc = "done"
    /\ commitHash # ""
    /\ ctx.relPath # ""
    /\ startLine # ""
    /\ endLine # ""
    /\ p = "github"

(* C2: detectProvider returns the matching descriptor of lowest registry   *)
(* index, the registry order being GitHub, GitLab, Bitbucket, Azure        *)
(* DevOps, Gitea, Gogs, CodeCommit; it returns the default descriptor      *)
(* exactly when no matcher accepts the base URL; it always returns a       *)
(* descriptor.                                                             *)
C2_FirstMatchWins ==
    pc = "done" =>
        /\ providers = <<"github", "gitlab", "bitbucket", "azure", "gitea",
                         "gogs", "codecommit">>
        /\ p \in {providers[i] : i \in 1..Len(providers)} \cup {defaultProvider}
        /\ (p = defaultProvider) <=> (Matching = {})
        /\ \A i \in Matching :
              (\A j \in Matching : i <= j) => p = providers[i]

C2_Witness ==
    /\ pc = "done"
    /\ Cardinality(Matching) >= 2
    /\ p = "bitbucket"

(* C3 as stated: with a commit hash, the returned URL never contains the   *)
(* branch-browsing path shape of the selected platform.                    *)
C3_NoBranchShape ==
    (pc = "done" /\ commitHash # "") => ~Contains(webURL, BranchShape(p))

(* C3 as amended: with a commit hash, what buildWebURL places right after  *)
(* the base URL is the platform's commit prefix; it is not the branch      *)
(* prefix for GitHub, the default, GitLab, Gitea and Azure DevOps, nor for *)
(* CodeCommit unless the hash itself starts with "refs/heads"; for         *)
(* Bitbucket and Gogs with a path it is "/src/<hash>/", the branch shape   *)
(* with the hash in the branch's place.                                    *)
C3_CommitPrefix ==
    (pc = "done" /\ commitHash # "") =>
        /\ HasPrefix(url, ctx.baseURL)
        /\ p \in {"github", "default", "gitlab", "gitea", "azure"} =>
              /\ ~HasPrefix(AfterBase, BranchShape(p))
              /\ ~HasPrefix(AfterBase, "/" \o BranchShape(p))
        /\ (p = "codecommit" /\ ~HasPrefix(commitHash, "refs/heads")) =>
              ~HasPrefix(AfterBase, "/" \o BranchShape(p))
        /\ (p = "codecommit" /\ ctx.relPath # "") =>
              HasPrefix(AfterBase, "/browse/" \o commitHash \o "/--/")
        /\ (p \in {"bitbucket", "gogs"} /\ ctx.relPath # "") =>
              HasPrefix(AfterBase, "/src/" \o commitHash \o "/")
        /\ (p = "bitbucket" /\ ctx.relPath = "") => AfterBase = "/commits/" \o commitHash
        /\ (p \in {"gogs", "codecommit"} /\ ctx.relPath = "") =>
              AfterBase = "/commit/" \o commitHash

C3_Witness ==
    /\ pc = "done"
    /\ p = "bitbucket"
    /\ commitHash = ctx.branch
    /\ ctx.relPath # ""
    /\ Contains(webURL, "src/" \o ctx.branch)

(* C4 as stated: for every provider, with an empty relative path the URL   *)
(* built for branch browsing and for commit browsing does not end with a   *)
(* dangling "/".                                                           *)
C4_NoDanglingSlash ==
    (pc = "done" /\ ctx.relPath = "") => ~HasSuffix(url, "/")

(* C4 as amended: with an empty relative path the URL before the anchor    *)
(* ends with the branch (branch browsing) or the commit hash (commit       *)
(* browsing) and so with no "/", except CodeCommit branch browsing, whose  *)
(* root URL ends with "/--/".                                              *)
C4_RootShape ==
    (pc = "done" /\ ctx.relPath = "") =>
        IF p = "codecommit" /\ commitHash = ""
        THEN HasSuffix(url, ctx.branch \o "/--/")
        ELSE /\ HasSuffix(url, IF commitHash # "" THEN commitHash ELSE ctx.branch)
             /\ ~HasSuffix(url, "/")
             /\ ~Contains(url, "&path=")

C4_Witness ==
    /\ pc = "done"
    /\ ctx.relPath = ""
    /\ p = "codecommit"
    /\ commitHash = ""
    /\ HasSuffix(webURL, "/")

(* C5: for GitHub, GitLab, Bitbucket, Gitea, Gogs and the default, without *)
(* a commit hash and with non-empty base and branch, the URL before the    *)
(* anchor is base/P/branch, followed by /relPath iff relPath is non-empty. *)
C5_TreeShape ==
    (/\ pc = "done"
     /\ p \in SlashProviders
     /\ commitHash = ""
     /\ ctx.baseURL # ""
     /\ ctx.branch # "") =>
        url = ctx.baseURL \o "/" \o TreeSegment(p) \o "/" \o ctx.branch
                \o (IF ctx.relPath # "" THEN "/" \o ctx.relPath ELSE "")

C5_Witness ==
    /\ pc = "done"
    /\ p = "gitea"
    /\ commitHash = ""
    /\ ctx.relPath = ""
    /\ url = ctx.baseURL \o "/src/branch/" \o ctx.branch

(* C6 as stated: for the same six providers, with a commit hash, the URL   *)
(* is base/C/hash when relPath is empty and base/B/hash/relPath otherwise. *)
C6_CommitShape ==
    (/\ pc = "done"
     /\ p \in SlashProviders
     /\ commitHash # "") =>
        url = IF ctx.relPath = ""
              THEN ctx.baseURL \o "/" \o CommitSegment(p) \o "/" \o commitHash
              ELSE ctx.baseURL \o "/" \o BlobSegment(p) \o "/" \o commitHash
                      \o "/" \o ctx.relPath

(* C6 for a base URL that is not empty, as every HTTPS base is.            *)
C6_CommitShapeNonEmptyBase ==
    (/\ pc = "done"
     /\ p \in SlashProviders
     /\ commitHash # ""
     /\ ctx.baseURL # "") =>
        url = IF ctx.relPath = ""
              THEN ctx.baseURL \o "/" \o CommitSegment(p) \o "/" \o commitHash
              ELSE ctx.baseURL \o "/" \o BlobSegment(p) \o "/" \o commitHash
                      \o "/" \o ctx.relPath

C6_Witness ==
    /\ pc = "done"
    /\ p = "gitea"
    /\ commitHash # ""
    /\ ctx.relPath # ""
    /\ HasPrefix(AfterBase, "/src/commit/")

(* C7: for an Azure DevOps base URL, branch browsing yields                *)
(* base?version=GB<branch>, followed by &path=/<relPath> only when relPath *)
(* is non-empty; commit browsing yields base/commit/<hash> when relPath is *)
(* empty and base?version=GC<hash>&path=/<relPath> otherwise.              *)
C7_AzureShape ==
    (pc = "done" /\ IsAzureBase) =>
        url = IF commitHash = ""
              THEN ctx.baseURL \o "?version=GB" \o ctx.branch
                      \o (IF ctx.relPath # "" THEN "&path=/" \o ctx.relPath ELSE "")
              ELSE IF ctx.relPath = ""
              THEN ctx.baseURL \o "/commit/" \o commitHash
              ELSE ctx.baseURL \o "?version=GC" \o commitHash \o "&path=/" \o ctx.relPath

C7_Witness ==
    /\ pc = "done"
    /\ IsAzureBase
    /\ Contains(ctx.baseURL, "gogs")
    /\ commitHash # ""
    /\ ctx.relPath # ""

(* C8: for a CodeCommit base URL, branch browsing yields                   *)
(* base/browse/refs/heads/<branch>/--/<relPath>, the root keeping the      *)
(* trailing "/"; commit browsing yields base/commit/<hash> when relPath is *)
(* empty and base/browse/<hash>/--/<relPath> otherwise.                    *)
C8_CodeCommitShape ==
    (pc = "done" /\ IsCodeCommitBase) =>
        url = IF commitHash = ""
              THEN ctx.baseURL \o "/browse/refs/heads/" \o ctx.branch \o "/--/"
                      \o ctx.relPath
              ELSE IF ctx.relPath = ""
              THEN ctx.baseURL \o "/commit/" \o commitHash
              ELSE ctx.baseURL \o "/browse/" \o commitHash \o "/--/" \o ctx.relPath

C8_Witness ==
    /\ pc = "done"
    /\ IsCodeCommitBase
    /\ commitHash = ""
    /\ ctx.relPath = ""
    /\ lineNumber = ""
    /\ HasSuffix(webURL, "/--/")

(* C9: with a non-empty start, the fragment anchor is X start when end is  *)
(* empty and X start S end otherwise, with (X, S) = ("#L", "-L") for       *)
(* GitHub, Gitea, Gogs and the default, ("#L", "-") for GitLab and         *)
(* ("#lines-", ":") for Bitbucket.                                         *)
C9_FragmentAnchors ==
    (pc = "done" /\ startLine # "" /\ p \in SlashProviders) =>
        LET X == IF p = "bitbucket" THEN "#lines-" ELSE "#L"
            S == CASE p = "bitbucket" -> ":"
                   [] p = "gitlab"    -> "-"
                   [] OTHER           -> "-L"
        IN  Anchor = IF endLine = ""
                     THEN X \o startLine
                     ELSE X \o startLine \o S \o endLine

C9_Witness ==
    /\ pc = "done"
    /\ p = "gogs"
    /\ startLine = "4"
    /\ endLine = "5"
    /\ Anchor = "#L4-L5"

(* C10: for Azure DevOps a non-empty start yields                          *)
(* &line=<start>&lineEnd=<m>&lineStartColumn=1&lineEndColumn=1 with m the  *)
(* end if there is one and the start otherwise, so the single line n and   *)
(* the range n-n get the same suffix.                                      *)
C10_AzureAnchor ==
    (pc = "done" /\ startLine # "" /\ p = "azure") =>
        /\ Anchor = "&line=" \o startLine \o "&lineEnd="
                      \o (IF endLine # "" THEN endLine ELSE startLine)
                      \o "&lineStartColumn=1&lineEndColumn=1"
        /\ endLine = "" =>
              LET r == buildWebURL(providers, ctx, startLine \o "-" \o startLine,
                                   commitHash)
              IN  r.ret = r.url \o Anchor

C10_Witness ==
    /\ pc = "done"
    /\ p = "azure"
    /\ startLine = "4"
    /\ endLine = ""
    /\ Anchor = "&line=4&lineEnd=4&lineStartColumn=1&lineEndColumn=1"

(* C11: for a base URL routed to CodeCommit the line information is        *)
(* dropped: whatever the line spec, buildWebURL returns what it returns    *)
(* for the empty line spec.                                                *)
C11_CodeCommitDropsLine ==
    (pc = "done" /\ IsCodeCommitBase) =>
        /\ webURL = url
        /\ webURL = buildWebURL(providers, ctx, "", commitHash).ret

C11_Witness ==
    /\ pc = "done"
    /\ IsCodeCommitBase
    /\ startLine = "4"
    /\ endLine = "5"
    /\ ctx.relPath = "main.go"
    /\ webURL = ctx.baseURL \o "/browse/refs/heads/main/--/main.go"

(* C12: an empty start yields the empty fragment for every end and every   *)
(* anchor builder; so a line spec that begins with "-" adds nothing to the *)
(* URL.                                                                    *)
C12_EmptyStartNoAnchor ==
    pc = "done" =>
        /\ startLine = "" => (Anchor = "" /\ webURL = url)
        /\ HasPrefix(lineNumber, "-") =>
              webURL = buildWebURL(providers, ctx, "", commitHash).ret

C12_Witness ==
    /\ pc = "done"
    /\ lineNumber = "-5"
    /\ startLine = ""
    /\ endLine = "5"
    /\ p = "bitbucket"
    /\ webURL = url

(* C13: a non-empty line spec is split at its first "-" only: startLine is *)
(* the text before it, endLine everything after it (so 4-5-4 gives 4 and   *)
(* 5-4); without "-" endLine is empty; an empty line spec gives both       *)
(* empty.                                                                  *)
C13_SplitAtFirstDash ==
    pc = "done" =>
        IF Contains(lineNumber, "-")
        THEN /\ lineNumber = startLine \o "-" \o endLine
             /\ ~Contains(startLine, "-")
        ELSE /\ startLine = lineNumber
             /\ endLine = ""

C13_Witness ==
    /\ pc = "done"
    /\ lineNumber = "4-5-4"
    /\ startLine = "4"
    /\ endLine = "5-4"

(* C14 as stated: after buildWebURL parsed any line spec, a non-empty      *)
(* endLine implies a non-empty startLine.                                  *)
C14_EndImpliesStart ==
    pc = "done" => (endLine # "" => startLine # "")

(* C14 as amended: that holds for every line spec that does not begin with *)
(* "-"; one that begins with "-" gives an empty startLine and the rest as  *)
(* endLine.                                                                *)
C14_EndImpliesStartUnlessLeadingDash ==
    pc = "done" =>
        IF HasPrefix(lineNumber, "-")
        THEN /\ startLine = ""
             /\ endLine = SubSeq(lineNumber, 2, Len(lineNumber))
        ELSE endLine # "" => startLine # ""

C14_Witness ==
    /\ pc = "done"
    /\ lineNumber = "5-4"
    /\ startLine = "5"
    /\ endLine = "4"

(* C15 as stated: every base URL that contains "gitlab.com" is routed to   *)
(* the GitLab descriptor, never to the default descriptor.                 *)
C15_GitLabComRouted ==
    (pc = "done" /\ Contains(ctx.baseURL, "gitlab.com")) => p = "gitlab"

(* C15 as amended: a base URL that contains "gitlab.com" is never routed   *)
(* to the default descriptor; it is routed to the GitLab descriptor unless *)
(* it also contains "github.com", which routes it to GitHub.               *)
C15_GitLabComUnlessGitHub ==
    (pc = "done" /\ Contains(ctx.baseURL, "gitlab.com")) =>
        /\ p # defaultProvider
        /\ p = IF Contains(ctx.baseURL, "github.com") THEN "github" ELSE "gitlab"

C15_Witness ==
    /\ pc = "done"
    /\ Contains(ctx.baseURL, "gitlab.com")
    /\ Contains(ctx.baseURL, "gogs")
    /\ p = "gitlab"

(* C16: a base URL that contains "gitlab" anywhere and does not contain    *)
(* "github.com" is built with the GitLab conventions: /-/tree/,            *)
(* /-/commit/, /-/blob/ and the anchor #Ln-m.                              *)
C16_GitLabSubstring ==
    (/\ pc = "done"
     /\ Contains(ctx.baseURL, "gitlab")
     /\ ~Contains(ctx.baseURL, "github.com")) =>
        /\ url = IF commitHash = ""
                 THEN ctx.baseURL \o "/-/tree/" \o ctx.branch
                         \o (IF ctx.relPath # "" THEN "/" \o ctx.relPath ELSE "")
                 ELSE IF ctx.relPath = ""
                 THEN ctx.baseURL \o "/-/commit/" \o commitHash
                 ELSE ctx.baseURL \o "/-/blob/" \o commitHash \o "/" \o ctx.relPath
        /\ startLine # "" =>
              Anchor = "#L" \o startLine
                          \o (IF endLine # "" THEN "-" \o endLine ELSE "")

C16_Witness ==
    /\ pc = "done"
    /\ Contains(ctx.baseURL, "gitlabmirror")
    /\ ~Contains(ctx.baseURL, "gitlab.com")
    /\ commitHash = ""
    /\ Anchor = "#L4-5"
    /\ HasPrefix(AfterBase, "/-/tree/")

(* C17: for a base URL that no registered matcher accepts, buildWebURL     *)
(* returns the URL that the GitHub descriptor's builders produce for the   *)
(* same arguments.                                                         *)
C17_DefaultIsGitHubStyle ==
    (pc = "done" /\ Matching = {}) =>
        /\ p = defaultProvider
        /\ webURL = (IF commitHash # ""
                     THEN commitURL("github", ctx.baseURL, commitHash, ctx.relPath)
                     ELSE treeURL("github", ctx.baseURL, ctx.branch, ctx.relPath))
                        \o lineAnchor("github", startLine, endLine)

C17_Witness ==
    /\ pc = "done"
    /\ Matching = {}
    /\ ctx.baseURL # ""
    /\ commitHash = ""
    /\ startLine # ""
    /\ HasPrefix(AfterBase, "/tree/")

(* C18: buildWebURL is deterministic: two invocations with the same        *)
(* context, line spec and commit hash return the same string, whatever     *)
(* their order and whatever was invoked in between.                        *)
C18_Deterministic ==
    \A i, j \in 1..Len(results) :
        (/\ results[i].ctx = results[j].ctx
         /\ results[i].lineNumber = results[j].lineNumber
         /\ results[i].commitHash = results[j].commitHash) =>
            results[i].got = results[j].got

C18_Witness ==
    /\ Len(results) = 3
    /\ results[1].ctx.baseURL = "https://github.com/gitlab/repo"
    /\ results[2].ctx.baseURL = "https://dev.azure.com/repo"
    /\ results[3].ctx = results[1].ctx
    /\ results[3].lineNumber = results[1].lineNumber
    /\ results[3].commitHash = results[1].commitHash
    /\ results[3].got = results[1].got
    /\ results[2].got # results[1].got

\* the arguments of pathJoin that are not empty
Kept == {i \in 1..Len(joinParts) : joinParts[i] # ""}

RECURSIVE Offset(_)
\* the characters that precede argument i in the result: every earlier
\* non-empty argument and one separator after each
Offset(i) ==
    IF i = 1 THEN 0
    ELSE Offset(i - 1)
            + (IF joinParts[i - 1] # "" THEN Len(joinParts[i - 1]) + 1 ELSE 0)

(* C19: pathJoin returns the non-empty parts, in their order, joined by a  *)
(* single "/"; the empty string when every part is empty or there is none. *)
C19_JoinsNonEmptyParts ==
    pc = "joined" =>
        /\ Kept = {} => joined = ""
        /\ Kept # {} => Len(joined) = Offset(Len(joinParts) + 1) - 1
        /\ \A i \in Kept :
              /\ SubSeq(joined, Offset(i) + 1, Offset(i) + Len(joinParts[i])) = joinParts[i]
              /\ Offset(i) > 0 => SubSeq(joined, Offset(i), Offset(i)) = "/"

C19_Witness ==
    /\ pc = "joined"
    /\ joinParts = <<"a", "", "b/c">>
    /\ joined = "a/b/c"

\* no argument has a slash at an edge
NoEdgeSlash ==
    \A i \in 1..Len(joinParts) :
        ~HasPrefix(joinParts[i], "/") /\ ~HasSuffix(joinParts[i], "/")

Trimmed ==
    IF HasSuffix(remoteURL, ".git")
    THEN SubSeq(remoteURL, 1, Len(remoteURL) - Len(".git"))
    ELSE remoteURL

\* the positions of a ':' that split Trimmed as "git@" H ":" P, with a host
\* H free of ':' and a path P, neither of them empty
ScpSplits ==
    {i \in 6..(Len(Trimmed) - 1) :
        /\ SubSeq(Trimmed, 1, 4) = "git@"
        /\ SubSeq(Trimmed, i, i) = ":"
        /\ ~Contains(SubSeq(Trimmed, 5, i - 1), ":")}

C22_AlwaysHTTPS ==
    pc = "converted" => HasPrefix(httpsURL, "https://")

\* the names of the flags that take the next argument as their value
ValueFlagNames == {"-r", "--remote", "-l", "--line", "--commit"}

\* the flags without a value
BoolFlagNames == {"-v", "--version", "-c", "--copy"}

\* the option a token gives a value to, in any spelling; "" if none
OptionOf(t) ==
    IF t \in {"-r", "--remote"} \/ HasPrefix(t, "--remote=")
          \/ (Len(t) > 2 /\ HasPrefix(t, "-r"))
    THEN "remote"
    ELSE IF t \in {"-l", "--line"} \/ HasPrefix(t, "--line=")
          \/ (Len(t) > 2 /\ HasPrefix(t, "-l"))
    THEN "line"
    ELSE IF t = "--commit" \/ HasPrefix(t, "--commit=")
    THEN "commit"
    ELSE ""

RECURSIVE Units(_)
\* an argument list cut into units: a value flag name takes the token
\* after it, every other token stands alone
Units(a) ==
    IF Len(a) = 0 THEN <<>>
    ELSE IF Head(a) \in ValueFlagNames /\ Len(a) >= 2
    THEN <<SubSeq(a, 1, 2)>> \o Units(SubSeq(a, 3, Len(a)))
    ELSE <<(<<Head(a)>>)>> \o Units(Tail(a))

\* the unit is a positional argument
IsPositional(unit) == Len(unit) = 1 /\ ~HasPrefix(unit[1], "-")

\* the list has no "--", is made of boolean flags, value flags with their
\* value (separated or attached) and positional arguments, and gives no
\* option a value twice
WellFormed(a) ==
    /\ \A i \in 1..Len(a) : a[i] # "--"
    /\ \A k \in 1..Len(Units(a)) :
          LET unit == Units(a)[k]
          IN  \/ IsPositional(unit)
              \/ Len(unit) = 1 /\ unit[1] \in BoolFlagNames
              \/ Len(unit) = 2
              \/ Len(unit) = 1 /\ OptionOf(unit[1]) # "" /\ unit[1] \notin ValueFlagNames
    /\ \A j, k \in 1..Len(Units(a)) :
          (j # k /\ OptionOf(Units(a)[j][1]) # "") =>
              OptionOf(Units(a)[j][1]) # OptionOf(Units(a)[k][1])

\* the orders of n units
Perms(n) == {f \in [1..n -> 1..n] : \A i, j \in 1..n : i # j => f[i] # f[j]}

\* order f leaves the positional units in their relative order
KeepsPositionalOrder(us, f) ==
    \A i, j \in 1..Len(us) :
        (i < j /\ IsPositional(us[f[i]]) /\ IsPositional(us[f[j]])) => f[i] < f[j]

RECURSIVE Flatten(_, _, _)
\* the argument list of the units from the k-th on, taken in order f
Flatten(us, f, k) ==
    IF k > Len(us) THEN <<>> ELSE us[f[k]] \o Flatten(us, f, k + 1)

(* C23: flags and positional arguments may come in any order: for a list   *)
(* without "--" in which each separated value flag has its value after it  *)
(* and no value option is given twice, every reordering of the units that  *)
(* keeps the positional arguments in their relative order parses without   *)
(* error to the same config.                                               *)
C23_AnyOrder ==
    (pc = "parsed" /\ WellFormed(args)) =>
        /\ err = ""
        /\ \A f \in Perms(Len(Units(args))) :
              KeepsPositionalOrder(Units(args), f) =>
                  parseArgs(Flatten(Units(args), f, 1)) = [cfg |-> cfg, err |-> ""]

C23_Witness ==
    /\ pc = "parsed"
    /\ args = <<"f", "-l", "-c">>
    /\ err = ""
    /\ cfg.line = "-c"
    /\ ~cfg.copy
    /\ cfg.paths = <<"f">>
    /\ parseArgs(<<"-l", "-c", "f">>).cfg = cfg

RECURSIVE Scanned(_, _)
\* the positions from i on that are read as arguments, not as the value of
\* a flag, up to the first "--" among them
Scanned(a, i) ==
    IF i > Len(a) THEN {}
    ELSE IF a[i] = "--" THEN {i}
    ELSE IF a[i] \in ValueFlagNames THEN {i} \cup Scanned(a, i + 2)
    ELSE {i} \cup Scanned(a, i + 1)

(* C24: parseArgs returns an error exactly when, among the tokens read as  *)
(* arguments before any "--", a value flag name is the last token or a     *)
(* token starts with '-' and is neither a boolean flag, a value flag name, *)
(* "--remote=...", "--line=...", "--commit=...", "-r<text>" nor "-l<text>".*)
C24_ErrorIff ==
    pc = "parsed" =>
        (err # "" <=>
            \E i \in Scanned(args, 1) :
                /\ args[i] # "--"
                /\ \/ args[i] \in ValueFlagNames /\ i = Len(args)
                   \/ /\ HasPrefix(args[i], "-")
                      /\ args[i] \notin BoolFlagNames
                      /\ OptionOf(args[i]) = "")

C24_Witness ==
    /\ pc = "parsed"
    /\ args = <<"-l", "-x", "-r">>
    /\ err = "flag -r requires a value"
    /\ cfg.line = "-x"

(* C25: the first "--" read as an argument ends flag parsing: the tokens   *)
(* after it are appended to paths as they are and in order, whatever they  *)
(* start with, without error, and the flags before it keep their values.   *)
C25_DoubleDashEndsFlags ==
    pc = "parsed" =>
        \A k \in Scanned(args, 1) :
            (args[k] = "--" /\ parseArgs(SubSeq(args, 1, k - 1)).err = "") =>
                /\ err = ""
                /\ cfg = [parseArgs(SubSeq(args, 1, k - 1)).cfg EXCEPT
                            !.paths = @ \o SubSeq(args, k + 1, Len(args))]

C25_Witness ==
    /\ pc = "parsed"
    /\ args = <<"-c", "--", "-x">>
    /\ err = ""
    /\ cfg.copy
    /\ cfg.paths = <<"-x">>

\* the values the arguments can be a spelling of: the second token, or an
\* end of the only one
ValuesIn(a) ==
    IF Len(a) = 2 THEN {a[2]}
    ELSE IF Len(a) = 1 THEN {SubSeq(a[1], k, Len(a[1])) : k \in 2..Len(a[1])}
    ELSE {}

(* C26: for a non-empty value v, "--line v", "--line=v", "-l v" and "-lv"  *)
(* give the same config, with line = v; "--remote v", "--remote=v", "-r v" *)
(* and "-rv" give remoteName = v; "--commit v" and "--commit=v" give       *)
(* commit = v; every other field has its default: remoteName "origin",     *)
(* the others zero.                                                        *)
C26_FormsAgree ==
    pc = "parsed" =>
        \A v \in ValuesIn(args) \ {""} :
            /\ args \in {<<"--line", v>>, <<"--line=" \o v>>, <<"-l", v>>, <<"-l" \o v>>} =>
                  /\ err = ""
                  /\ cfg = [version |-> FALSE, remoteName |-> "origin", copy |-> FALSE,
                            line |-> v, commit |-> "", paths |-> <<>>]
            /\ args \in {<<"--remote", v>>, <<"--remote=" \o v>>, <<"-r", v>>, <<"-r" \o v>>} =>
                  /\ err = ""
                  /\ cfg = [version |-> FALSE, remoteName |-> v, copy |-> FALSE,
                            line |-> "", commit |-> "", paths |-> <<>>]
            /\ args \in {<<"--commit", v>>, <<"--commit=" \o v>>} =>
                  /\ err = ""
                  /\ cfg = [version |-> FALSE, remoteName |-> "origin", copy |-> FALSE,
                            line |-> "", commit |-> v, paths |-> <<>>]

C26_Witness ==
    /\ pc = "parsed"
    /\ args = <<"-l4-5">>
    /\ cfg.line = "4-5"
    /\ cfg.remoteName = "origin"
    /\ parseArgs(<<"--line", "4-5">>).cfg = cfg

(* C27: the registry is read-only after initialization: no call of         *)
(* detectProvider or buildWebURL changes providers, so after any sequence  *)
(* of buildWebURL calls the registry has its initial value.                *)
C27_RegistryReadOnly ==
    providers = ProviderTable

C27_Witness ==
    /\ pc = "loop"
    /\ Len(results) = 2
    /\ results[1].ctx.baseURL = "https://example.org/repo"
    /\ results[2].ctx.baseURL = "https://dev.azure.com/repo"
    /\ p = "azure"
    /\ providers = ProviderTable

\* the stages of main before the output sink, in the order of the code
StageOrder == <<"parseArgs", "version", "resolvePath", "getRepoContext", "buildWebURL">>

\* the output sinks
Sinks == {"copyToClipboard", "openBrowser"}

\* the steps of getRepoContext that fail in this environment
FailingSteps ==
    {k \in 1..Len(RepoSteps) :
        \/ ~env.steps[k]
        \/ RepoSteps[k] = "failed to get remote URL" /\ cfg.remoteName \notin DOMAIN env.remotes}

\* the stage has run
Ran(stage) == \E i \in 1..Len(trace) : trace[i] = stage

(* C28: main runs parseArgs, the version check, resolvePath,               *)
(* getRepoContext, buildWebURL and the output sink in this order; when     *)
(* parseArgs, resolvePath, getRepoContext or the sink returns an error the *)
(* process ends with status 1 and no later stage runs; so a sink (the      *)
(* clipboard when copy is set, else the browser) runs at most once and     *)
(* only after every earlier stage succeeded; getRepoContext returns the    *)
(* first error of its steps, with an empty context.                        *)
C28_StagesInOrder ==
    /\ \A i \in 1..Len(trace) :
          IF i <= Len(StageOrder)
          THEN trace[i] = StageOrder[i]
          ELSE /\ i = Len(StageOrder) + 1
               /\ trace[i] = (IF cfg.copy THEN "copyToClipboard" ELSE "openBrowser")
    /\ err # "" =>
          /\ exitStatus = <<1>>
          /\ pc = "exit"
          /\ trace[Len(trace)] \in {"parseArgs", "resolvePath", "getRepoContext"} \cup Sinks
    /\ exitStatus = <<1>> => err # ""
    /\ (\E s \in Sinks : Ran(s)) =>
          /\ parseArgs(args).err = ""
          /\ ~cfg.version
          /\ env.exists
          /\ env.getwd \/ (cfg.paths # <<>> /\ HasPrefix(cfg.paths[1], "/"))
          /\ FailingSteps = {}
          /\ webURL # ""
    /\ (Ran("getRepoContext") /\ FailingSteps # {}) =>
          /\ ctx = EmptyContext
          /\ \E k \in FailingSteps :
                /\ \A j \in FailingSteps : k <= j
                /\ err = RepoSteps[k]
          /\ exitStatus = <<1>>
          /\ trace[Len(trace)] = "getRepoContext"

C28_Witness ==
    /\ pc = "exit"
    /\ Len(trace) = Len(StageOrder) + 1
    /\ trace[Len(trace)] = "copyToClipboard"
    /\ exitStatus = <<1>>
    /\ args = <<"--commit", "abc1234", "-c", "--", "main.go">>
    /\ ctx.relPath = "main.go"

\* the line spec has one '-' at most
AtMostOneDash(line) ==
    Cardinality({i \in 1..Len(line) : SubSeq(line, i, i) = "-"}) <= 1

(* C29: the table-driven buildWebURL returns what the switch-based         *)
(* buildWebURL of the single-file main.go returns, for every platform,     *)
(* with and without a commit hash, when base URL and branch are not empty, *)
(* the relative path is not "." and the line spec has one '-' at most.     *)
C29_SwitchEquivalent ==
    (/\ pc = "done"
     /\ ctx.baseURL # ""
     /\ ctx.branch # ""
     /\ ctx.relPath # "."
     /\ AtMostOneDash(lineNumber)) =>
        webURL = buildWebURLSwitch(ctx.baseURL, ctx.branch, ctx.relPath, lineNumber,
                                   commitHash)

C29_Witness ==
    /\ pc = "done"
    /\ p = "codecommit"
    /\ ctx.relPath = ""
    /\ commitHash = ""
    /\ lineNumber = "4-5"
    /\ HasSuffix(webURL, "/--/")
    /\ webURL = buildWebURLSwitch(ctx.baseURL, ctx.branch, ctx.relPath, lineNumber,
                                  commitHash)

(* C30: for an Azure DevOps base URL, whenever buildWebURL appends a       *)
(* non-empty line suffix "&line=...", the URL before the suffix holds a    *)
(* "?version=" query, whatever the relative path and the commit hash.      *)
C30_LineSuffixExtendsQuery ==
    (pc = "done" /\ IsAzureBase /\ Anchor # "") => Contains(url, "?version=")

====
